---- MODULE Spec2Model ----
(***************************************************************************)
(* A model of ssh-manager-bot: the connection-link encoder of              *)
(* src/src/lib.rs (sagernet_link_generator, compress_data,                 *)
(* encode_qr_code_to_image_bytes), the account operations that run around  *)
(* it (auto_newuser, newuser, userdel) and the command handler of          *)
(* src/src/main.rs (answer).                                               *)
(*                                                                         *)
(* Text is a sequence of Unicode code points; bytes are sequences of       *)
(* numbers in 0..255.  The library calls the code makes (UTF-8, zlib,      *)
(* URL-safe base64, QR version selection, raster scaling) are modelled by  *)
(* what they compute.                                                      *)
(***************************************************************************)
EXTENDS Integers, Sequences, FiniteSets, TLC

(***************************************************************************)
(* Bounds of the model.                                                    *)
(***************************************************************************)
\* A profile differs from the golden profile in at most this many fields.
MaxDeviations == 2
\* The thread-local generator is followed through this many states.
RngStates == 2
\* At most this many accounts with the configured prefix exist at once.
MaxUsers == 2
\* The texts given to the QR renderer exceed the largest version's capacity by
\* up to this many bytes.
MaxExcess == 2
\* This many handlers run the pipeline at the same time.
MaxCallers == 2
\* This many auto_newuser requests run at the same time.
MaxRequests == 2
\* Messages come from this many chats.
MaxChats == 2

(***************************************************************************)
(* State.                                                                  *)
(***************************************************************************)
VARIABLES
    overflow_checks,  \* the build: TRUE with overflow checks (debug profile)
    args,             \* the arguments the generator is called with
    result,           \* what the last call of the generator did
    twin,             \* what the call before the last did, with the same arguments
    moved,            \* whether another operation ran since the last call
    rng,              \* the position of the thread-local random generator
    users,            \* the accounts that exist
    account,          \* what the last account operation returned
    text,             \* the argument of encode_qr_code_to_image_bytes
    qr,               \* what the last call of the renderer did
    config,           \* CONFIG: the configuration file as loaded
    calls,            \* each concurrent caller of the pipeline: where it is
    stack,            \* the local variables of each call of the pipeline
    requests,         \* each concurrent auto_newuser request: where it is
    msg,              \* the message the handler ran for last
    outbox,           \* the messages the handler sent for msg
    forwards,         \* the messages the handler forwarded to the log chat
    invoked           \* the library functions the handler called for msg

link_vars == <<args, result, twin, moved>>
account_vars == <<rng, users, account>>
qr_vars == <<text, qr>>
call_vars == <<calls, stack>>
chat_vars == <<msg, outbox, forwards, invoked>>
handler_vars == <<config, call_vars, requests, chat_vars>>
vars == <<overflow_checks, link_vars, account_vars, qr_vars, handler_vars>>

(***************************************************************************)
(* Text and byte helpers.                                                  *)
(***************************************************************************)
\* str::as_bytes for one char: its UTF-8 encoding.
Utf8(c) ==
    IF c < 128 THEN <<c>>
    ELSE IF c < 2048 THEN <<192 + (c \div 64), 128 + (c % 64)>>
    ELSE IF c < 65536
         THEN <<224 + (c \div 4096), 128 + ((c \div 64) % 64), 128 + (c % 64)>>
         ELSE <<240 + (c \div 262144), 128 + ((c \div 4096) % 64),
                128 + ((c \div 64) % 64), 128 + (c % 64)>>

\* str::as_bytes: the UTF-8 bytes of a text (of its chars lo..hi, joined by
\* halves).
RECURSIVE utf8_of(_, _, _)
utf8_of(s, lo, hi) ==
    IF lo > hi THEN <<>>
    ELSE IF lo = hi THEN Utf8(s[lo])
    ELSE LET mid == (lo + hi) \div 2
         IN  utf8_of(s, lo, mid) \o utf8_of(s, mid + 1, hi)

as_bytes(s) == utf8_of(s, 1, Len(s))

\* Vec::pop: drops the last element; on an empty vector it does nothing.
pop(v) == IF v = <<>> THEN <<>> ELSE SubSeq(v, 1, Len(v) - 1)

\* `c as u8` for a char: the low eight bits of the code point.
as_u8(c) == c % 256

\* The literal texts of the source.
HighBit == 128
Header == <<0, 0, 0, 0>>
Reserved == <<0, 0>>
MarkerA == <<1, 0, 0, 0>>
MarkerB == <<129, 1, 0, 0, 0, 161>>
Trailer == <<0, 0, 0, 0>>
\* "SpeedPing("
TitleOpen == <<83, 112, 101, 101, 100, 80, 105, 110, 103, 40>>
\* ") "
TitleClose == <<41, 32>>
\* " "
Space == <<32>>
\* The configured prefix of automatic account names: "user".
Prefix == <<117, 115, 101, 114>>
\* "sn://ssh?"
Scheme == <<115, 110, 58, 47, 47, 115, 115, 104, 63>>

(***************************************************************************)
(* The profiles the generator is called with.                              *)
(***************************************************************************)
\* {serverAddress: "1.2.3.4", port: 443, username: "user001",
\*  password: "pass0001", location: "US", expiryDate: "2024-01-01"}
Golden ==
    [server_address |-> <<49, 46, 50, 46, 51, 46, 52>>,
     port |-> 443,
     username |-> <<117, 115, 101, 114, 48, 48, 49>>,
     password |-> <<112, 97, 115, 115, 48, 48, 48, 49>>,
     location |-> <<85, 83>>,
     exp_date |-> <<50, 48, 50, 52, 45, 48, 49, 45, 48, 49>>]

FieldNames ==
    {"server_address", "port", "username", "password", "location", "exp_date"}

\* Other values of each field: a one-character text, the empty text, texts
\* ending in a char >= 128 whose low byte is >= 128 (e-acute U+00E9, euro
\* U+20AC) or < 128 (L-stroke U+0141), a text with a non-ASCII char before an
\* ASCII last char, a last char of 127; ports up to and beyond 16 bits.
Values ==
    [server_address |-> {Golden.server_address, <<104>>, <<>>, <<233>>,
                         <<97, 321>>},
     port |-> {Golden.port, 22, 65535, 65536, 65979},
     username |-> {Golden.username, <<117>>, <<>>, <<117, 8364>>,
                   <<233, 49>>},
     password |-> {Golden.password, <<112, 127>>, <<>>, <<112, 233>>,
                   <<321>>},
     location |-> {Golden.location, <<>>, <<90, 252, 114, 105>>},
     exp_date |-> {Golden.exp_date, <<>>}]

Deviations(p) == Cardinality({f \in FieldNames : p[f] # Golden[f]})

Profiles ==
    {p \in [server_address : Values.server_address, port : Values.port,
            username : Values.username, password : Values.password,
            location : Values.location, exp_date : Values.exp_date] :
        Deviations(p) <= MaxDeviations}

(***************************************************************************)
(* sagernet_link_generator, stage by stage.                                *)
(***************************************************************************)
\* u8 + u8.  A sum above 255 panics in a build with overflow checks (the
\* debug profile) and wraps modulo 256 in a build without them (release).
add_u8(a, b, checks) ==
    IF a + b > 255 /\ checks
    THEN [panic |-> TRUE, value |-> 0]
    ELSE [panic |-> FALSE, value |-> (a + b) % 256]

\* The field encoding without the pop: the marked byte is appended after the
\* last byte instead of replacing it.
field_bytes_unpopped(s, checks) ==
    IF s = <<>>
    THEN [panic |-> "unwrap", bytes |-> <<>>]
    ELSE LET sum == add_u8(as_u8(s[Len(s)]), HighBit, checks)
         IN  IF sum.panic
             THEN [panic |-> "overflow", bytes |-> as_bytes(s)]
             ELSE [panic |-> "no", bytes |-> Append(as_bytes(s), sum.value)]

\* The three copies of
\*     let mut v = s.as_bytes().to_vec();
\*     v.pop();
\*     v.push(s.chars().last().unwrap() as u8 + 128);
\* `panic` is "no", or "unwrap" (chars().last() of an empty text is None), or
\* "overflow" (the addition, in a build with overflow checks).
field_bytes(s, checks) ==
    LET popped == pop(as_bytes(s))
    IN  IF s = <<>>
        THEN [panic |-> "unwrap", bytes |-> popped]
        ELSE LET sum == add_u8(as_u8(s[Len(s)]), HighBit, checks)
             IN  IF sum.panic
                 THEN [panic |-> "overflow", bytes |-> popped]
                 ELSE [panic |-> "no", bytes |-> Append(popped, sum.value)]

\* A conversion that stops at the largest u16.
as_u16_saturating(port) == IF port > 65535 THEN 65535 ELSE port

\* `port as u16`: the low sixteen bits of the u32.
as_u16(port) == port % 65536

\* write_u16 with the bytes in big-endian order.
write_u16_big_endian(n) == <<n \div 256, n % 256>>

\* LittleEndian::write_u16 into a two-byte buffer.
write_u16(n) == <<n % 256, n \div 256>>

\* A title that names the account auto_newuser would create next instead of
\* the username it is given.
title_of_next_account(username, location, exp_date) ==
    TitleOpen
    \o (Prefix \o <<48, 48, 49 + Cardinality(users)>>)
    \o TitleClose \o location \o Space \o exp_date

\* format!("SpeedPing({}) {} {}", username, location, exp_date)
title(username, location, exp_date) ==
    TitleOpen \o username \o TitleClose \o location \o Space \o exp_date

\* The vector kryo_bytes as the function builds it (lines 451-484), up to
\* the first panic: `at` names the field whose encoding panicked, `built` the
\* fields whose encoding was completed, `locals` the vectors
\* server_address_bytes, username_bytes and password_bytes.
kryo_bytes(a, checks) ==
    LET sa == field_bytes(a.server_address, checks)
        un == field_bytes(a.username, checks)
        pw == field_bytes(a.password, checks)
        k1 == Header
        k2 == k1 \o sa.bytes \o write_u16(as_u16(a.port)) \o Reserved
        k3 == k2 \o un.bytes \o MarkerA
        k4 == k3 \o pw.bytes \o MarkerB
                 \o as_bytes(title(a.username, a.location, a.exp_date))
                 \o Trailer
        none == [server_address |-> <<>>, username |-> <<>>, password |-> <<>>]
    IN  IF sa.panic # "no"
        THEN [panic |-> sa.panic, at |-> "server_address", bytes |-> k1,
              built |-> {}, locals |-> none]
        ELSE IF un.panic # "no"
        THEN [panic |-> un.panic, at |-> "username", bytes |-> k2,
              built |-> {"server_address"},
              locals |-> [none EXCEPT !.server_address = sa.bytes]]
        ELSE IF pw.panic # "no"
        THEN [panic |-> pw.panic, at |-> "password", bytes |-> k3,
              built |-> {"server_address", "username"},
              locals |-> [none EXCEPT !.server_address = sa.bytes,
                                      !.username = un.bytes]]
        ELSE [panic |-> "no", at |-> "", bytes |-> k4,
              built |-> {"server_address", "username", "password"},
              locals |-> [server_address |-> sa.bytes, username |-> un.bytes,
                          password |-> pw.bytes]]

\* The sum of w(i) * data[i] over lo..hi, by halves; w is 1 or the number of
\* bytes from i to the end.
RECURSIVE weighted_sum(_, _, _, _)
weighted_sum(data, lo, hi, weighted) ==
    IF lo > hi THEN 0
    ELSE IF lo = hi
    THEN (IF weighted THEN Len(data) - lo + 1 ELSE 1) * data[lo]
    ELSE LET mid == (lo + hi) \div 2
         IN  weighted_sum(data, lo, mid, weighted)
             + weighted_sum(data, mid + 1, hi, weighted)

\* Adler-32 of the data, as its two sixteen-bit halves <<a, b>>: a is one
\* plus the sum of the bytes, b the sum of the values a takes after each
\* byte, both modulo 65521.
adler32(data) ==
    <<(1 + weighted_sum(data, 1, Len(data), FALSE)) % 65521,
      (Len(data) + weighted_sum(data, 1, Len(data), TRUE)) % 65521>>

\* A zlib stream (RFC 1950) for the data: the header of the default level
\* (78 9C), a deflate body and the big-endian Adler-32 of the data.  The body
\* is written as one final stored block (RFC 1951, 3.2.4: 01, LEN, NLEN, the
\* bytes); the block types the library's level-6 compressor picks are its own
\* choice and are not reproduced.
zlib_stream(data) ==
    LET n == Len(data)
        sum == adler32(data)
    IN  <<120, 156>>
        \o <<1, n % 256, n \div 256, 255 - (n % 256), 255 - (n \div 256)>>
        \o data
        \o <<sum[2] \div 256, sum[2] % 256, sum[1] \div 256, sum[1] % 256>>

\* compress_data: Ok(stream), or the io::Error of write_all / finish when the
\* writer does not accept the data (writer_ok = FALSE).
compress_data(data, writer_ok) ==
    IF writer_ok
    THEN [ok |-> TRUE, bytes |-> zlib_stream(data)]
    ELSE [ok |-> FALSE, bytes |-> <<>>]

\* The standard base64 alphabet: '+' and '/' for 62 and 63.
base64_char_standard(i) ==
    IF i < 26 THEN 65 + i
    ELSE IF i < 52 THEN 97 + (i - 26)
    ELSE IF i < 62 THEN 48 + (i - 52)
    ELSE IF i = 62 THEN 43
    ELSE 47

\* The URL-safe base64 alphabet: A-Z, a-z, 0-9, '-', '_'.
base64_char(i) ==
    IF i < 26 THEN 65 + i
    ELSE IF i < 52 THEN 97 + (i - 26)
    ELSE IF i < 62 THEN 48 + (i - 52)
    ELSE IF i = 62 THEN 45
    ELSE 95

\* base64_url::encode: three bytes to four characters, most significant bits
\* first; a last group of one or two bytes gives two or three characters and
\* no '=' padding.  Character k of the text comes from group (k - 1) \div 4.
base64_url_encode(b) ==
    LET n == Len(b)
        rest == n % 3
        len == 4 * (n \div 3) + (IF rest = 0 THEN 0 ELSE rest + 1)
        byte(i) == IF i <= n THEN b[i] ELSE 0
        sextet(k) ==
            LET g == 3 * ((k - 1) \div 4)
                pos == (k - 1) % 4
            IN  IF pos = 0 THEN byte(g + 1) \div 4
                ELSE IF pos = 1
                THEN (byte(g + 1) % 4) * 16 + (byte(g + 2) \div 16)
                ELSE IF pos = 2
                THEN (byte(g + 2) % 16) * 4 + (byte(g + 3) \div 64)
                ELSE byte(g + 3) % 64
    IN  [k \in 1..len |-> base64_char(sextet(k))]

NoResult ==
    [out |-> "none", why |-> "", at |-> "", writer |-> "unused",
     kryo_bytes |-> <<>>, built |-> {},
     locals |-> [server_address |-> <<>>, username |-> <<>>, password |-> <<>>],
     link |-> <<>>]

\* The whole call.  out is "returned" (link is the String returned) or
\* "panic" (the thread unwinds: why is "unwrap" or "overflow" for a field, or
\* "compress" for compress_data(..).unwrap() on an Err).  kryo_bytes is the
\* vector as it stood when the function returned or panicked; writer tells
\* whether the compression writer was reached and took the data.
sagernet_link_generator(a, checks, writer_ok) ==
    LET kryo == kryo_bytes(a, checks)
        zlib_compressed == compress_data(kryo.bytes, writer_ok)
        reached == [NoResult EXCEPT !.kryo_bytes = kryo.bytes,
                                    !.built = kryo.built,
                                    !.locals = kryo.locals]
    IN  IF kryo.panic # "no"
        THEN [reached EXCEPT !.out = "panic", !.why = kryo.panic,
                             !.at = kryo.at]
        ELSE IF ~zlib_compressed.ok
        THEN [reached EXCEPT !.out = "panic", !.why = "compress",
                             !.writer = "rejected"]
        ELSE [reached EXCEPT !.out = "returned", !.writer = "ok",
                             !.link = Scheme
                                 \o base64_url_encode(zlib_compressed.bytes)]

(***************************************************************************)
(* encode_qr_code_to_image_bytes, stage by stage.                          *)
(***************************************************************************)
\* QrCode::new encodes at error-correction level M and picks the smallest
\* version 1..40 whose data capacity holds the encoded bits.  The data
\* codewords of each version at level M:
DataCodewords ==
    <<16, 28, 44, 64, 86, 108, 124, 154, 182, 216,
      254, 290, 334, 365, 415, 453, 507, 563, 627, 669,
      714, 782, 860, 914, 1000, 1062, 1128, 1193, 1267, 1373,
      1455, 1541, 1631, 1725, 1812, 1914, 1992, 2102, 2216, 2334>>

Versions == 1..Len(DataCodewords)

\* A byte-mode segment is a 4-bit mode indicator, a character count of 8 bits
\* (versions 1-9) or 16 bits (versions 10-40) and eight bits a byte.
byte_mode_bits(n, v) == 4 + (IF v <= 9 THEN 8 ELSE 16) + 8 * n

\* The most bytes version v holds in byte mode.
byte_capacity(v) == (8 * DataCodewords[v] - byte_mode_bits(0, v)) \div 8

\* QrCode::new(data): Ok with the version chosen, or Err(DataTooLong).
qr_new(data) ==
    LET fit == {v \in Versions : byte_mode_bits(Len(data), v) <= 8 * DataCodewords[v]}
    IN  IF fit = {}
        THEN [ok |-> FALSE, version |-> 0]
        ELSE [ok |-> TRUE, version |-> CHOOSE v \in fit : \A w \in fit : v <= w]

\* The side of a version's module grid, and the quiet zone of the renderer
\* on each side of it.
modules_count(v) == 17 + 4 * v
QuietZone == 4
MaxDimension == 550

\* max_dimensions rounding the pixels of a module up instead of down (what
\* min_dimensions does).
max_dimensions_rounded_up(width, height, modules) ==
    LET width_in_modules == modules + 2 * QuietZone
    IN  [w |-> (width + width_in_modules - 1) \div width_in_modules,
         h |-> (height + width_in_modules - 1) \div width_in_modules]

\* Renderer::max_dimensions(width, height): the pixels a module gets, the
\* largest whole number with which the grid and its quiet zone fit, and at
\* least one (module_dimensions).
max_dimensions(width, height, modules) ==
    LET width_in_modules == modules + 2 * QuietZone
        unit_width == width \div width_in_modules
        unit_height == height \div width_in_modules
    IN  [w |-> IF unit_width > 1 THEN unit_width ELSE 1,
         h |-> IF unit_height > 1 THEN unit_height ELSE 1]

\* Renderer::build: the raster, quiet zone included, in the two colours.
build(modules, module_size) ==
    [width |-> (modules + 2 * QuietZone) * module_size.w,
     height |-> (modules + 2 * QuietZone) * module_size.h,
     dark |-> <<123, 255, 6>>,
     light |-> <<28, 32, 31>>]

be_u32(n) == <<n \div 16777216, (n \div 65536) % 256, (n \div 256) % 256, n % 256>>

\* The PNG stream write_to produces for an RGB8 raster, as far as the model
\* follows it: the signature and the IHDR chunk's length, type and fields
\* (width, height, bit depth 8, colour type 2, no interlace).  The chunk
\* checksums and the pixel chunks are not written out.
png_stream(raster) ==
    <<137, 80, 78, 71, 13, 10, 26, 10>>
    \o <<0, 0, 0, 13, 73, 72, 68, 82>>
    \o be_u32(raster.width) \o be_u32(raster.height)
    \o <<8, 2, 0, 0, 0>>

\* How write_to ends: "ok", or an Err after it wrote nothing or the
\* signature only.
WriteOutcomes == {"ok", "err_at_0", "err_at_8"}

written(stream, outcome) ==
    IF outcome = "ok" THEN stream
    ELSE IF outcome = "err_at_0" THEN <<>>
    ELSE SubSeq(stream, 1, 8)

NoQr == [out |-> "none", why |-> "", version |-> 0, width |-> 0, height |-> 0,
         write |-> "none", image_bytes |-> <<>>]

\* The whole call.  out is "returned" (image_bytes is the Vec returned) or
\* "panic" (QrCode::new(..).unwrap() on an Err).  The Result of write_to is
\* dropped: whatever was written is returned.
encode_qr_code_to_image_bytes(t, outcome) ==
    LET qrcode == qr_new(as_bytes(t))
        module_size == max_dimensions(MaxDimension, MaxDimension,
                                      modules_count(qrcode.version))
        qrcode_image_buffer == build(modules_count(qrcode.version), module_size)
    IN  IF ~qrcode.ok
        THEN [NoQr EXCEPT !.out = "panic", !.why = "data_too_long"]
        ELSE [out |-> "returned", why |-> "", version |-> qrcode.version,
              width |-> qrcode_image_buffer.width,
              height |-> qrcode_image_buffer.height,
              write |-> outcome,
              image_bytes |-> written(png_stream(qrcode_image_buffer), outcome)]

\* The texts the renderer is given: the scheme followed by base64 letters,
\* of every length at which a version becomes full or the next one starts,
\* and up to MaxExcess bytes beyond the largest version.
QrLengths ==
    {byte_capacity(v) : v \in Versions}
    \cup {byte_capacity(v) + 1 : v \in Versions}
    \cup {Len(Scheme)}
    \cup {byte_capacity(Len(DataCodewords)) + k : k \in 1..MaxExcess}

QrTexts == {Scheme \o [i \in 1..(n - Len(Scheme)) |-> 97] : n \in QrLengths}

(***************************************************************************)
(* The operations around the generator.                                    *)
(***************************************************************************)
\* format!("{}{:03}", prefix, n): n in decimal, padded with zeros to three
\* digits.
numbered_name(n) ==
    Prefix \o <<48 + ((n \div 100) % 10), 48 + ((n \div 10) % 10), 48 + (n % 10)>>

\* get_users_core(prefix, None): the accounts whose name starts with the prefix.
get_users_core(accounts) ==
    {u \in accounts : Len(u) >= Len(Prefix) /\ SubSeq(u, 1, Len(Prefix)) = Prefix}

\* gen_password: format!("SSHMGMT{:05}", n) for the number n drawn.
gen_password(n) ==
    <<83, 83, 72, 77, 71, 77, 84>>
    \o <<48 + ((n \div 10000) % 10), 48 + ((n \div 1000) % 10),
         48 + ((n \div 100) % 10), 48 + ((n \div 10) % 10), 48 + (n % 10)>>

\* The numbers followed of rng.gen_range(0..100000).
RandomNumbers == {7, 99999}

\* unixuser_code_to_err for the exit codes the model produces.
unixuser_code_to_err(code) ==
    IF code = 0 THEN "none"
    ELSE IF code = 1 THEN "Permission denied"
    ELSE IF code = 3 THEN "Invalid shell"
    ELSE IF code = 6 THEN "Invalid user or group"
    ELSE IF code = 9 THEN "User alreade exists"
    ELSE "Unexpected error"

\* A useradd that takes a name that is already there.
useradd_code_overwriting(accounts, username) == 0

\* useradd: exit code 9 when the name is taken, 0 when the account is made.
useradd_code(accounts, username) == IF username \in accounts THEN 9 ELSE 0

\* userdel: exit code 6 when there is no such account, 0 when it is removed.
userdel_code(accounts, username) == IF username \in accounts THEN 0 ELSE 6

NoAccount == [op |-> "none", out |-> "none", username |-> <<>>, password |-> <<>>]

NoTwin == [seen |-> FALSE, moved |-> FALSE, out |-> "none", kryo_bytes |-> <<>>,
           link |-> <<>>]

\* ConfigFile, as ConfigFile::load reads it from /etc/userbot.json: the
\* fields the handlers use.  Chat ids are small numbers.
GoldenConfig ==
    [server_address |-> Golden.server_address, ports |-> <<Golden.port>>,
     location |-> Golden.location, admin_list |-> {1}, log_chat |-> 9,
     prefix |-> Prefix]

\* The configurations followed: the golden one, one whose first port does not
\* fit sixteen bits, one with no administrator.
Configs ==
    {GoldenConfig,
     [GoldenConfig EXCEPT !.ports = <<65979, 22>>],
     [GoldenConfig EXCEPT !.admin_list = {}]}

\* The arguments the handlers give sagernet_link_generator (main.rs 218-225
\* and 259-266): address, first port and location of the configuration,
\* name, password and expiry date of the account.
profile_of(config_file, sshuser) ==
    [server_address |-> config_file.server_address,
     port |-> config_file.ports[1],
     username |-> sshuser.username,
     password |-> sshuser.password,
     location |-> config_file.location,
     exp_date |-> sshuser.expiry_date]

\* SSHUser.
NoUser == [username |-> <<>>, password |-> <<>>, expiry_date |-> <<>>]

\* A call of the pipeline that has not started, and its locals.
NoCall == [pc |-> "idle", sshuser |-> NoUser, writer_ok |-> TRUE,
           outcome |-> "ok", sagernet_link |-> <<>>, qr_bytes |-> NoQr,
           overlapped |-> FALSE]
NoLocals == [kryo_bytes |-> <<>>, zlib_compressed |-> <<>>, link |-> <<>>]

\* No message handled yet.
NoMsg == [chat |-> 0, cmd |-> "none", username |-> <<>>]

\* No handler is running and none has run.
HandlersIdle ==
    /\ config = GoldenConfig
    /\ calls = [c \in 1..MaxCallers |-> NoCall]
    /\ stack = [c \in 1..MaxCallers |-> NoLocals]
    /\ requests = <<>>
    /\ msg = NoMsg
    /\ outbox = <<>>
    /\ forwards = <<>>
    /\ invoked = {}

Init ==
    /\ overflow_checks \in BOOLEAN
    /\ args \in Profiles
    /\ result = NoResult
    /\ twin = NoTwin
    /\ moved = FALSE
    /\ rng = 0
    /\ users = {}
    /\ account = NoAccount
    /\ text = <<>>
    /\ qr = NoQr
    /\ HandlersIdle

\* sagernet_link_generator runs from entry to return or panic.  What the
\* call before did is kept beside it.
SagernetLinkGenerator ==
    /\ \E writer_ok \in BOOLEAN :
          result' = sagernet_link_generator(args, overflow_checks, writer_ok)
    /\ twin' = IF result.out # "none"
               THEN [seen |-> TRUE, moved |-> moved, out |-> result.out,
                     kryo_bytes |-> result.kryo_bytes, link |-> result.link]
               ELSE NoTwin
    /\ moved' = FALSE
    /\ UNCHANGED <<overflow_checks, args, account_vars, qr_vars,
                 handler_vars>>

\* encode_qr_code_to_image_bytes(t) runs from entry to return or panic.
EncodeQrCodeToImageBytes(t) ==
    /\ text' = t
    /\ \E outcome \in WriteOutcomes :
          qr' = encode_qr_code_to_image_bytes(t, outcome)

\* The caller renders the link it got (main.rs: qr_bytes).
EncodeLinkQr ==
    /\ result.out = "returned"
    /\ EncodeQrCodeToImageBytes(result.link)
    /\ moved' = TRUE
    /\ UNCHANGED <<overflow_checks, args, result, twin, account_vars,
                 handler_vars>>

\* gen_password: one draw from thread_rng(), which moves the generator on.
GenPassword ==
    /\ rng' = (rng + 1) % RngStates
    /\ moved' = TRUE
    /\ UNCHANGED <<overflow_checks, args, result, twin, users, account, qr_vars,
                 handler_vars>>

\* auto_newuser, as one caller runs it: a password is drawn, the accounts
\* with the prefix are counted, and newuser runs useradd for
\* prefix + (count + 1), which makes the account or exits with code 9.  The
\* group and the expiry date are handed through and are not followed.
AutoNewUser ==
    /\ Cardinality(users) < MaxUsers
    /\ \E n \in RandomNumbers :
          LET password == gen_password(n)
              users_count == Cardinality(get_users_core(users))
              username == numbered_name(users_count + 1)
              error == unixuser_code_to_err(useradd_code(users, username))
          IN  /\ users' = users \cup {username}
              /\ account' = IF error # "none"
                            THEN [NoAccount EXCEPT !.op = "auto_newuser",
                                                   !.out = error]
                            ELSE [op |-> "auto_newuser", out |-> "Ok",
                                  username |-> username, password |-> password]
    /\ rng' = (rng + 1) % RngStates
    /\ moved' = TRUE
    /\ UNCHANGED <<overflow_checks, args, result, twin, qr_vars,
                 handler_vars>>

\* userdel(username).
UserDel(u) ==
    /\ LET error == unixuser_code_to_err(userdel_code(users, u))
       IN  account' = IF error # "none"
                      THEN [NoAccount EXCEPT !.op = "userdel", !.out = error]
                      ELSE [NoAccount EXCEPT !.op = "userdel", !.out = "Deleted",
                                             !.username = u]
    /\ users' = users \ {u}
    /\ moved' = TRUE
    /\ UNCHANGED <<overflow_checks, args, result, twin, rng, qr_vars,
                 handler_vars>>

\* The pipeline: link, then image, for the profile given.
Next ==
    \/ SagernetLinkGenerator
    \/ EncodeLinkQr

Spec == Init /\ [][Next]_vars

(***************************************************************************)
(* The pipeline among the bot's other operations, called for the golden    *)
(* profile or a profile that differs from it in one field.                 *)
(***************************************************************************)
RepeatProfiles == {p \in Profiles : Deviations(p) <= 1}

BotInit ==
    /\ overflow_checks \in BOOLEAN
    /\ args \in RepeatProfiles
    /\ result = NoResult
    /\ twin = NoTwin
    /\ moved = FALSE
    /\ rng = 0
    /\ users = {}
    /\ account = NoAccount
    /\ text = <<>>
    /\ qr = NoQr
    /\ HandlersIdle

BotNext ==
    \/ SagernetLinkGenerator
    \/ EncodeLinkQr
    \/ GenPassword
    \/ AutoNewUser
    \/ \E k \in 1..MaxUsers : UserDel(numbered_name(k))

BotSpec == BotInit /\ [][BotNext]_vars

(***************************************************************************)
(* The renderer on its own: a text is given, the function runs once.       *)
(***************************************************************************)
QrInit ==
    /\ overflow_checks \in BOOLEAN
    /\ args = Golden
    /\ result = NoResult
    /\ twin = NoTwin
    /\ moved = FALSE
    /\ rng = 0
    /\ users = {}
    /\ account = NoAccount
    /\ text \in QrTexts
    /\ qr = NoQr
    /\ HandlersIdle

EncodeTextQr ==
    /\ qr.out = "none"
    /\ EncodeQrCodeToImageBytes(text)
    /\ UNCHANGED <<overflow_checks, link_vars, account_vars,
                 handler_vars>>

QrNext == EncodeTextQr

QrSpec == QrInit /\ [][QrNext]_vars

(***************************************************************************)
(* The pipeline run by several handlers at once (the dispatcher runs the   *)
(* handlers of different chats concurrently).  Each caller has its own     *)
(* account; the configuration is the one CONFIG every handler clones.  A   *)
(* call goes through lib.rs 451-484 (the vector), 486 (compression),       *)
(* 488-490 (the text and the link) and 503-518 (the image), and the other  *)
(* callers may run between any two of these.                               *)
(***************************************************************************)
\* "user002"
User002 == Prefix \o <<48, 48, 50>>

\* The accounts the callers hold: the golden one, a generated one, and one
\* whose name ends in a char outside ASCII.
CallerUsers ==
    {[username |-> Golden.username, password |-> Golden.password,
      expiry_date |-> Golden.exp_date],
     [username |-> User002, password |-> gen_password(7),
      expiry_date |-> Golden.exp_date],
     [username |-> <<117, 8364>>, password |-> Golden.password,
      expiry_date |-> Golden.exp_date]}

Callers == 1..MaxCallers

\* Every call writing its locals to one place.
frame_shared(c) == 1

\* Where the locals of caller c's call live: kryo_bytes, zlib_compressed and
\* the String returned are owned values on the stack of the call itself.
frame(c) == c

\* Caller c takes a step while another call is between its first and its
\* last step.
Overlaps(c) ==
    \E d \in Callers \ {c} : calls[d].pc \in {"compress", "encode", "render"}

CallInit ==
    /\ overflow_checks \in BOOLEAN
    /\ args = Golden
    /\ result = NoResult
    /\ twin = NoTwin
    /\ moved = FALSE
    /\ rng = 0
    /\ users = {}
    /\ account = NoAccount
    /\ text = <<>>
    /\ qr = NoQr
    /\ config = GoldenConfig
    /\ calls \in [Callers -> {[NoCall EXCEPT !.pc = "serialize", !.sshuser = u] :
                                 u \in CallerUsers}]
    /\ stack = [c \in Callers |-> NoLocals]
    /\ requests = <<>>
    /\ msg = NoMsg
    /\ outbox = <<>>
    /\ forwards = <<>>
    /\ invoked = {}

\* Lines 449-484: kryo_bytes is built, or a field's encoding panics.
Serialize(c) ==
    /\ calls[c].pc = "serialize"
    /\ LET kryo == kryo_bytes(profile_of(config, calls[c].sshuser), overflow_checks)
       IN  /\ stack' = [stack EXCEPT ![frame(c)].kryo_bytes = kryo.bytes]
           /\ calls' = [calls EXCEPT ![c].overlapped = @ \/ Overlaps(c),
                                   ![c].pc = IF kryo.panic # "no" THEN "panic"
                                             ELSE "compress"]
    /\ UNCHANGED <<overflow_checks, link_vars, account_vars, qr_vars, config,
                   requests, chat_vars>>

\* Line 486: compress_data(&kryo_bytes).unwrap().
Compress(c) ==
    /\ calls[c].pc = "compress"
    /\ \E writer_ok \in BOOLEAN :
          LET zlib_compressed == compress_data(stack[frame(c)].kryo_bytes, writer_ok)
          IN  /\ stack' = [stack EXCEPT
                              ![frame(c)].zlib_compressed = zlib_compressed.bytes]
              /\ calls' = [calls EXCEPT
                              ![c].overlapped = @ \/ Overlaps(c),
                              ![c].writer_ok = writer_ok,
                              ![c].pc = IF zlib_compressed.ok THEN "encode"
                                        ELSE "panic"]
    /\ UNCHANGED <<overflow_checks, link_vars, account_vars, qr_vars, config,
                   requests, chat_vars>>

\* Lines 488-490: the text, and the link returned.
Encode(c) ==
    /\ calls[c].pc = "encode"
    /\ stack' = [stack EXCEPT
                    ![frame(c)].link =
                        Scheme \o base64_url_encode(stack[frame(c)].zlib_compressed)]
    /\ calls' = [calls EXCEPT ![c].overlapped = @ \/ Overlaps(c),
                             ![c].pc = "render"]
    /\ UNCHANGED <<overflow_checks, link_vars, account_vars, qr_vars, config,
                   requests, chat_vars>>

\* main.rs 227 / 268: the caller takes the link and has it rendered.
Render(c) ==
    /\ calls[c].pc = "render"
    /\ \E outcome \in WriteOutcomes :
          LET sagernet_link == stack[frame(c)].link
              qr_bytes == encode_qr_code_to_image_bytes(sagernet_link, outcome)
          IN  calls' = [calls EXCEPT
                           ![c].overlapped = @ \/ Overlaps(c),
                           ![c].outcome = outcome,
                           ![c].sagernet_link = sagernet_link,
                           ![c].qr_bytes = qr_bytes,
                           ![c].pc = IF qr_bytes.out = "panic" THEN "panic"
                                     ELSE "done"]
    /\ UNCHANGED <<overflow_checks, link_vars, account_vars, qr_vars, config,
                   stack, requests, chat_vars>>

CallNext ==
    \E c \in Callers : Serialize(c) \/ Compress(c) \/ Encode(c) \/ Render(c)

CallSpec == CallInit /\ [][CallNext]_vars

(***************************************************************************)
(* auto_newuser run by several handlers at once.  A request draws its      *)
(* password (line 158), counts the accounts with the prefix (160), names   *)
(* the account (162) and has newuser run useradd (165, 116-126); the other *)
(* requests may run between any two of these.  The accounts are the ones   *)
(* of the host, shared by every request.                                   *)
(***************************************************************************)
Requests == 1..MaxRequests

NoRequest ==
    [pc |-> "idle", password |-> <<>>, counted |-> {}, users_count |-> 0,
     username |-> <<>>, among |-> {}, out |-> "none", sshuser |-> NoUser]

\* The accounts a run of auto_newuser and userdel calls can leave behind.
NumberedAccounts == SUBSET {numbered_name(k) : k \in 1..MaxUsers}

RaceInit ==
    /\ overflow_checks \in BOOLEAN
    /\ args = Golden
    /\ result = NoResult
    /\ twin = NoTwin
    /\ moved = FALSE
    /\ rng = 0
    /\ users \in NumberedAccounts
    /\ account = NoAccount
    /\ text = <<>>
    /\ qr = NoQr
    /\ config = GoldenConfig
    /\ calls = [c \in Callers |-> NoCall]
    /\ stack = [c \in Callers |-> NoLocals]
    /\ requests = [r \in Requests |-> [NoRequest EXCEPT !.pc = "gen_password"]]
    /\ msg = NoMsg
    /\ outbox = <<>>
    /\ forwards = <<>>
    /\ invoked = {}

\* Line 158: let password = gen_password();
DrawPassword(r) ==
    /\ requests[r].pc = "gen_password"
    /\ \E n \in RandomNumbers :
          requests' = [requests EXCEPT ![r].password = gen_password(n),
                                       ![r].pc = "get_users_core"]
    /\ rng' = (rng + 1) % RngStates
    /\ UNCHANGED <<overflow_checks, link_vars, users, account, qr_vars, config,
                   call_vars, chat_vars>>

\* Lines 160-162: the accounts with the prefix are listed and counted, and
\* the name is made of the count.  `among` keeps the requests that had
\* counted and not yet run useradd at this moment.
CountUsers(r) ==
    /\ requests[r].pc = "get_users_core"
    /\ LET counted == get_users_core(users)
           users_count == Cardinality(counted)
       IN  requests' =
               [requests EXCEPT
                   ![r].counted = counted,
                   ![r].users_count = users_count,
                   ![r].username = numbered_name(users_count + 1),
                   ![r].among = {d \in Requests \ {r} : requests[d].pc = "newuser"},
                   ![r].pc = "newuser"]
    /\ UNCHANGED <<overflow_checks, link_vars, account_vars, qr_vars, config,
                   call_vars, chat_vars>>

\* Line 165 with 116-142: newuser runs useradd for the name and turns its
\* exit code into the Result.
NewUser(r) ==
    /\ requests[r].pc = "newuser"
    /\ LET username == requests[r].username
           error == unixuser_code_to_err(useradd_code(users, username))
       IN  /\ users' = users \cup {username}
           /\ requests' =
                 [requests EXCEPT
                     ![r].pc = "done",
                     ![r].out = IF error # "none" THEN error ELSE "Ok",
                     ![r].sshuser =
                         IF error # "none" THEN NoUser
                         ELSE [username |-> username,
                               password |-> requests[r].password,
                               expiry_date |-> Golden.exp_date]]
    /\ UNCHANGED <<overflow_checks, link_vars, rng, account, qr_vars, config,
                   call_vars, chat_vars>>

RaceNext ==
    \E r \in Requests : DrawPassword(r) \/ CountUsers(r) \/ NewUser(r)

RaceSpec == RaceInit /\ [][RaceNext]_vars

(***************************************************************************)
(* The handler `answer` (main.rs 56-288), one message at a time.  msg is   *)
(* the message handled last; outbox, forwards and invoked hold what the    *)
(* handler sent, forwarded and called while it handled that message.       *)
(***************************************************************************)
Chats == 1..MaxChats

\* enum Command.
Commands ==
    {"Help", "GetExp", "Lock", "Unlock", "UserDel", "ChangeMax", "ChangePass",
     "ChangeExp", "Renew", "UserAdd", "AutoAdd"}

\* The library function each command's branch calls first.
lib_op(cmd) ==
    CASE cmd = "GetExp" -> "get_chage_exp"
      [] cmd = "Lock" -> "lock_user"
      [] cmd = "Unlock" -> "unlock_user"
      [] cmd = "UserDel" -> "userdel"
      [] cmd = "ChangeMax" -> "change_max"
      [] cmd = "ChangePass" -> "change_pass"
      [] cmd = "ChangeExp" -> "change_exp"
      [] cmd = "Renew" -> "renew_user"
      [] cmd = "UserAdd" -> "newuser"
      [] cmd = "AutoAdd" -> "auto_newuser"

\* The exit code of the tool the function runs: useradd and userdel as
\* above; usermod and chage leave with 6 and 1 for a name that is not there.
exit_code(cmd, accounts, username) ==
    IF cmd = "UserDel" THEN userdel_code(accounts, username)
    ELSE IF cmd \in {"UserAdd", "AutoAdd"} THEN useradd_code(accounts, username)
    ELSE IF username \in accounts THEN 0
    ELSE IF cmd \in {"GetExp", "ChangeExp", "Renew"} THEN 1
    ELSE 6

\* A handler that takes every chat for an administrator's.
is_admin_anyone(chat) == TRUE

\* CONFIG.admin_list.contains(&msg.chat.id.0)
is_admin(chat) == chat \in config.admin_list

\* The calls of the bot's API a branch makes, in order, cut at the first one
\* that fails (`.await?` returns the error): `delivered` of them succeed.
api_calls(plan, delivered) ==
    SubSeq(plan, 1, IF delivered < Len(plan) THEN delivered ELSE Len(plan))

send_message(chat, kind) == [api |-> "send_message", chat |-> chat, kind |-> kind]
send_photo(chat) == [api |-> "send_photo", chat |-> chat, kind |-> "photo"]
forward_message(chat) == [api |-> "forward_message", chat |-> chat, kind |-> "log"]

IsForward(call) == call.api = "forward_message"
IsSend(call) == call.api # "forward_message"

\* The branches of every command but Help, UserAdd and AutoAdd (62-197),
\* past the check of admin_list: the library function is called; Ok is
\* answered and the message forwarded to the log chat, Err is answered.
\* What the tools do to an account that stays (lock, group, password, expiry
\* date) is not followed.
manage(chat, cmd, username, env, quiet) ==
    LET error == unixuser_code_to_err(exit_code(cmd, users, username))
        plan == IF error = "none"
                THEN <<send_message(chat, "reply"), forward_message(chat)>>
                ELSE <<send_message(chat, "error")>>
        done == api_calls(plan, env.delivered)
    IN  [quiet EXCEPT
            !.users = IF cmd = "UserDel" THEN users \ {username} ELSE users,
            !.account = [NoAccount EXCEPT
                            !.op = lib_op(cmd),
                            !.out = IF error = "none" THEN "Ok" ELSE error,
                            !.username = username],
            !.invoked = {lib_op(cmd)},
            !.outbox = SelectSeq(done, IsSend),
            !.forwards = SelectSeq(done, IsForward)]

\* Lines 227-239 and 268-280: the link is rendered; the image is sent and
\* the message forwarded.
render_and_send(linked, chat, env, sagernet_link, qr_bytes) ==
    LET rendered == [linked EXCEPT
                        !.text = sagernet_link,
                        !.qr = qr_bytes,
                        !.invoked = @ \cup {"encode_qr_code_to_image_bytes"}]
        done == api_calls(<<send_message(chat, "info"), send_photo(chat),
                            forward_message(chat)>>, env.delivered)
    IN  IF qr_bytes.out = "panic" THEN rendered
        ELSE [rendered EXCEPT !.outbox = SelectSeq(done, IsSend),
                              !.forwards = SelectSeq(done, IsForward)]

\* Lines 218-225 and 259-266, after the account's data were sent: the link
\* is generated for the profile.
link_and_send(made, chat, env, profile, sagernet_link) ==
    LET linked == [made EXCEPT
                      !.outbox = <<send_message(chat, "info")>>,
                      !.args = profile,
                      !.result = sagernet_link,
                      !.invoked = @ \cup {"sagernet_link_generator"}]
    IN  IF sagernet_link.out = "panic" THEN linked
        ELSE render_and_send(linked, chat, env, sagernet_link.link,
                             encode_qr_code_to_image_bytes(sagernet_link.link,
                                                           env.outcome))

\* The branches of UserAdd (198-243) and AutoAdd (244-284), past the check
\* of admin_list: the account is made; on Ok its data are sent, the link is
\* generated and rendered, the image is sent and the message forwarded; on
\* Err the error is sent.  A panic of the link or the image ends the handler
\* where it stands, and so does a call of the bot's API that fails.
add(chat, cmd, username, env, quiet) ==
    LET name == IF cmd = "AutoAdd"
                THEN numbered_name(Cardinality(get_users_core(users)) + 1)
                ELSE username
        password == IF cmd = "AutoAdd" THEN gen_password(env.n)
                    ELSE Golden.password
        error == unixuser_code_to_err(exit_code(cmd, users, name))
        sshuser == [username |-> name, password |-> password,
                    expiry_date |-> Golden.exp_date]
        made == [quiet EXCEPT
                    !.users = users \cup {name},
                    !.rng = IF cmd = "AutoAdd" THEN (rng + 1) % RngStates ELSE rng,
                    !.account = IF error = "none"
                                THEN [op |-> lib_op(cmd), out |-> "Ok",
                                      username |-> name, password |-> password]
                                ELSE [NoAccount EXCEPT !.op = lib_op(cmd),
                                                       !.out = error],
                    !.invoked = {lib_op(cmd)}]
        profile == profile_of(config, sshuser)
    IN  IF error # "none"
        THEN [made EXCEPT
                 !.outbox = api_calls(<<send_message(chat, "error")>>,
                                      env.delivered)]
        ELSE IF env.delivered = 0 THEN made
        ELSE link_and_send(made, chat, env, profile,
                           sagernet_link_generator(profile, overflow_checks,
                                                   env.writer_ok))

\* answer(bot, msg, cmd): what the handler leaves behind.  env holds what the
\* surroundings decide: the number gen_password draws, how many calls of the
\* bot's API succeed, whether the compression writer and the image writer
\* take the data.  The link, the image and the account result are
\* those of this run of the handler: none when it made none.
answer(chat, cmd, username, env) ==
    LET quiet == [users |-> users, account |-> NoAccount, rng |-> rng,
                  outbox |-> <<>>, forwards |-> <<>>, invoked |-> {},
                  args |-> Golden, result |-> NoResult, text |-> <<>>,
                  qr |-> NoQr]
    IN  IF cmd = "Help"
        THEN [quiet EXCEPT
                 !.outbox = api_calls(<<send_message(chat, "help")>>,
                                      env.delivered)]
        ELSE IF ~is_admin(chat) THEN quiet
        ELSE IF cmd \in {"UserAdd", "AutoAdd"}
        THEN add(chat, cmd, username, env, quiet)
        ELSE manage(chat, cmd, username, env, quiet)

\* The names the commands are given.
Usernames == {Golden.username, User002}

\* The most calls of the bot's API a branch makes.
api_calls_of(cmd) ==
    IF cmd = "Help" THEN 1 ELSE IF cmd \in {"UserAdd", "AutoAdd"} THEN 3 ELSE 2

\* The names and passwords of the commands are ASCII, so no addition
\* overflows and the build makes no difference: the release build is taken.
ChatInit ==
    /\ overflow_checks = FALSE
    /\ args = Golden
    /\ result = NoResult
    /\ twin = NoTwin
    /\ moved = FALSE
    /\ rng = 0
    /\ users = {}
    /\ account = NoAccount
    /\ text = <<>>
    /\ qr = NoQr
    /\ config \in Configs
    /\ calls = [c \in Callers |-> NoCall]
    /\ stack = [c \in Callers |-> NoLocals]
    /\ requests = <<>>
    /\ msg = NoMsg
    /\ outbox = <<>>
    /\ forwards = <<>>
    /\ invoked = {}

\* The dispatcher hands the handler a message of a chat.
Answer(chat, cmd, username) ==
    /\ (cmd = "AutoAdd" /\ is_admin(chat)) => Cardinality(users) < MaxUsers
    /\ \E n \in (IF cmd = "AutoAdd" THEN RandomNumbers ELSE {0}),
          delivered \in 0..api_calls_of(cmd),
          writer_ok \in (IF cmd \in {"UserAdd", "AutoAdd"} THEN BOOLEAN ELSE {TRUE}),
          outcome \in (IF cmd \in {"UserAdd", "AutoAdd"} THEN WriteOutcomes
                       ELSE {"ok"}) :
          \E after \in {answer(chat, cmd, username,
                                [n |-> n, delivered |-> delivered,
                                 writer_ok |-> writer_ok, outcome |-> outcome])} :
              /\ msg' = [chat |-> chat, cmd |-> cmd, username |-> username]
              /\ users' = after.users
              /\ account' = after.account
              /\ rng' = after.rng
              /\ outbox' = after.outbox
              /\ forwards' = after.forwards
              /\ invoked' = after.invoked
              /\ args' = after.args
              /\ result' = after.result
              /\ text' = after.text
              /\ qr' = after.qr
    /\ UNCHANGED <<overflow_checks, twin, moved, config, call_vars, requests>>

ChatNext ==
    \E chat \in Chats, cmd \in Commands :
        \E username \in (IF cmd \in {"Help", "AutoAdd"} THEN {<<>>} ELSE Usernames) :
            Answer(chat, cmd, username)

ChatSpec == ChatInit /\ [][ChatNext]_vars

(***************************************************************************)
(* Properties.                                                             *)
(***************************************************************************)
TextFields == {"server_address", "username", "password", "location", "exp_date"}
EncodedFields == {"server_address", "username", "password"}

\* The fields the function encodes before field f.
EncodedBefore(f) ==
    IF f = "server_address" THEN {}
    ELSE IF f = "username" THEN {"server_address"}
    ELSE {"server_address", "username"}

IsAscii(s) == \A i \in 1..Len(s) : s[i] < 128
NonEmptyAscii(s) == s # <<>> /\ IsAscii(s)

\* A call of the generator has ended.
Called == result.out # "none"

\* FE(x) as the specification words it: x with 128 added to its last byte.
Terminated(s) == [i \in 1..Len(s) |-> IF i = Len(s) THEN s[i] + 128 ELSE s[i]]

\* "SpeedPing(user001) US 2024-01-01"
GoldenTitle ==
    <<83, 112, 101, 101, 100, 80, 105, 110, 103, 40, 117, 115, 101, 114, 48, 48,
      49, 41, 32, 85, 83, 32, 50, 48, 50, 52, 45, 48, 49, 45, 48, 49>>

\* C1: for a profile whose text fields are non-empty ASCII (and whose port is
\* a 16-bit number), the bytes built before compression are 00 00 00 00,
\* FE(serverAddress), the port in two little-endian bytes, 00 00,
\* FE(username), 01 00 00 00, FE(password), 81 01 00 00 00 A1, the ASCII
\* bytes of "SpeedPing(" username ") " location " " expiryDate, 00 00 00 00;
\* for the golden profile the header is 00 00 00 00, the port bytes are BB 01
\* and the title is "SpeedPing(user001) US 2024-01-01".
C1_SerializedLayout ==
    /\ (Called /\ args.port < 65536
               /\ \A f \in TextFields : NonEmptyAscii(args[f]))
       => result.kryo_bytes =
              <<0, 0, 0, 0>>
              \o Terminated(args.server_address)
              \o <<args.port % 256, args.port \div 256>>
              \o <<0, 0>>
              \o Terminated(args.username)
              \o <<1, 0, 0, 0>>
              \o Terminated(args.password)
              \o <<129, 1, 0, 0, 0, 161>>
              \o <<83, 112, 101, 101, 100, 80, 105, 110, 103, 40>>
              \o args.username \o <<41, 32>> \o args.location \o <<32>>
              \o args.exp_date
              \o <<0, 0, 0, 0>>
    /\ (Called /\ args = Golden)
       => /\ Len(result.kryo_bytes) = 76
          /\ SubSeq(result.kryo_bytes, 1, 4) = <<0, 0, 0, 0>>
          /\ SubSeq(result.kryo_bytes, 12, 13) = <<187, 1>>
          /\ SubSeq(result.kryo_bytes, 41, 72) = GoldenTitle

\* The golden profile was serialized and its link returned.
C1_Witness == Called /\ args = Golden /\ result.out = "returned"

\* C2: for a non-empty text of characters below 128, the encoding applied to
\* serverAddress, username and password has the length of the text, equals it
\* in every byte but the last, and its last byte is the text's last byte plus
\* 128.
C2_FieldEncoding ==
    Called =>
        \A f \in EncodedFields :
            (NonEmptyAscii(args[f]) /\ result.at \notin EncodedBefore(f))
            => LET s == args[f]
                   e == result.locals[f]
               IN  /\ f \in result.built
                   /\ Len(e) = Len(s)
                   /\ \A i \in 1..(Len(s) - 1) : e[i] = s[i]
                   /\ e[Len(s)] = s[Len(s)] + 128

\* A password ending in the character 127 was encoded (its last byte is 255),
\* next to a one-character server address.
C2_Witness ==
    /\ Called
    /\ args.password = <<112, 127>>
    /\ args.server_address = <<104>>
    /\ result.built = EncodedFields
    /\ result.locals.password = <<112, 255>>

UrlSafeAlphabet ==
    (65..90) \cup (97..122) \cup (48..57) \cup {45, 95}

\* The number a character of the URL-safe alphabet stands for.
SextetOf(c) ==
    IF c \in 65..90 THEN c - 65
    ELSE IF c \in 97..122 THEN c - 71
    ELSE IF c \in 48..57 THEN c + 4
    ELSE IF c = 45 THEN 62
    ELSE 63

\* The bytes an unpadded base64 text stands for: byte j takes its eight bits
\* from the two characters they fall in.
Base64Decoded(t) ==
    LET pow2(k) == IF k = 0 THEN 1 ELSE IF k = 2 THEN 4 ELSE IF k = 4 THEN 16
                   ELSE IF k = 6 THEN 64 ELSE 256
        byte(j) ==
            LET q == ((j - 1) * 8) \div 6 + 1
                o == ((j - 1) * 8) % 6
            IN  (SextetOf(t[q]) % pow2(6 - o)) * pow2(2 + o)
                + (SextetOf(t[q + 1]) \div pow2(4 - o))
    IN  [j \in 1..((Len(t) * 6) \div 8) |-> byte(j)]

\* C3: a returned link is "sn://ssh?" followed by a non-empty text made only
\* of A-Z, a-z, 0-9, '-' and '_', and that text is the encoding of the
\* zlib-compressed serialized bytes.
C3_LinkShape ==
    (Called /\ result.out = "returned")
    => LET link == result.link
           encoded == SubSeq(link, 10, Len(link))
       IN  /\ Len(link) > 9
           /\ SubSeq(link, 1, 9) = <<115, 110, 58, 47, 47, 115, 115, 104, 63>>
           /\ \A i \in 1..Len(encoded) : encoded[i] \in UrlSafeAlphabet
           /\ Base64Decoded(encoded) = zlib_stream(result.kryo_bytes)

\* A link was returned whose text holds both '-' and '_'.
C3_Witness ==
    /\ Called
    /\ result.out = "returned"
    /\ \E i, j \in 10..Len(result.link) :
          result.link[i] = 45 /\ result.link[j] = 95

\* C4: when a text field of the profile is empty (and the compression writer
\* rejects nothing), link generation ends with an InvalidField error returned
\* to the caller: no panic and no link.
C4_EmptyFieldIsInvalidField ==
    (Called /\ result.writer # "rejected"
            /\ \E f \in TextFields : args[f] = <<>>)
    => (result.out = "error" /\ result.why = "InvalidField")

\* C5: when an encoded field holds a character of code point 128 or more
\* (every text field being non-empty, the compression writer rejecting
\* nothing), encoding ends with InvalidField: the
\* addition of 128 does not overflow or wrap, and no part of a multi-byte
\* character reaches the output.
C5_NonAsciiFieldIsInvalidField ==
    (Called /\ result.writer # "rejected"
            /\ (\A f \in TextFields : args[f] # <<>>)
            /\ \E f \in EncodedFields : ~IsAscii(args[f]))
    => (result.out = "error" /\ result.why = "InvalidField")

C10_CompressionFailureIsReturned ==
    (Called /\ result.writer = "rejected")
    => (result.out = "error" /\ result.why = "CompressionFailure")

\* A call of the renderer has ended.
Rendered == qr.out # "none"

\* C6: when the text exceeds the byte capacity of version 40 at level M
\* (2331 bytes), the renderer ends with a PayloadTooLarge error value: no
\* truncation, no image, no abort.
C6_TooLargeIsPayloadTooLarge ==
    (Rendered /\ Len(text) > 2331)
    => (qr.out = "error" /\ qr.why = "PayloadTooLarge")

\* C7: for every text the renderer accepts, the raster's width and height
\* are both above zero and at most 550 pixels.
C7_RasterWithinBounds ==
    (Rendered /\ qr.out = "returned")
    => /\ qr.width > 0 /\ qr.width <= 550
       /\ qr.height > 0 /\ qr.height <= 550

\* The largest version was rendered, from the longest text it holds.
C7_Witness ==
    /\ qr.out = "returned"
    /\ qr.version = 40
    /\ Len(text) = 2331
    /\ qr.width = 370

\* C9: when the raster cannot be written in the image format, the renderer
\* reports an ImageEncodingFailure; it does not return the bytes written so
\* far as if encoding had succeeded.
C9_WriteFailureIsReported ==
    (Rendered /\ qr.write \notin {"ok", "none"})
    => (qr.out = "error" /\ qr.why = "ImageEncodingFailure")

\* What caller c's call gives when it runs with nothing else running, for the
\* same answers of the compression writer and the image writer.
Alone(c) ==
    LET link == sagernet_link_generator(profile_of(config, calls[c].sshuser),
                                        overflow_checks, calls[c].writer_ok)
    IN  [link |-> link,
         image |-> IF link.out = "returned"
                   THEN encode_qr_code_to_image_bytes(link.link, calls[c].outcome)
                   ELSE NoQr]

\* C11: however the calls of several callers interleave, the link and the
\* image each caller gets are the ones its own profile gives when its call
\* runs alone, and a call panics exactly when it panics alone.
C11_InterleavedAsAlone ==
    \A c \in Callers :
        calls[c].pc \in {"done", "panic"}
           => LET alone == Alone(c)
              IN  IF calls[c].pc = "done"
                  THEN /\ alone.link.out = "returned"
                       /\ calls[c].sagernet_link = alone.link.link
                       /\ calls[c].qr_bytes = alone.image
                  ELSE \/ alone.link.out = "panic"
                       \/ alone.image.out = "panic"

\* Two callers with different accounts have both got their link and image,
\* each having run while the other was under way.
C11_Witness ==
    /\ calls[1].pc = "done" /\ calls[2].pc = "done"
    /\ calls[1].overlapped /\ calls[2].overlapped
    /\ calls[1].sshuser # calls[2].sshuser
    /\ calls[1].sagernet_link # calls[2].sagernet_link
    /\ calls[1].sagernet_link # <<>>

\* Requests r and d both counted the same accounts before either ran
\* useradd.
Collide(r, d) ==
    /\ r # d
    /\ r \in requests[d].among \/ d \in requests[r].among
    /\ requests[r].counted = requests[d].counted

C13_NextNameIsFree ==
    /\ numbered_name(Cardinality(get_users_core(users)) + 1) \notin users
    /\ account.op = "auto_newuser" => account.out # unixuser_code_to_err(9)

\* The message handled last is a command other than Help of a chat that is
\* not in admin_list.
NonAdminCommand ==
    /\ msg.cmd \in Commands \ {"Help"}
    /\ msg.chat \notin config.admin_list

\* C14: for a command other than Help of a chat that is not in admin_list
\* the handler calls no library function (no account operation, no link, no
\* image), sends nothing and forwards nothing; and the accounts change only
\* in a step that handles a command, other than Help, of a chat in
\* admin_list.
C14_NonAdminIgnored ==
    /\ [](NonAdminCommand
             => /\ invoked = {}
                /\ account = NoAccount
                /\ result = NoResult
                /\ qr = NoQr
                /\ outbox = <<>>
                /\ forwards = <<>>)
    /\ [][users' # users
             => /\ msg'.chat \in config.admin_list
                /\ msg'.cmd \in Commands \ {"Help"}]_vars

\* A chat outside admin_list has asked for the deletion of an account that
\* exists; the account is still there and nothing was sent.
C14_Witness ==
    /\ NonAdminCommand
    /\ msg.cmd = "UserDel"
    /\ msg.username \in users
    /\ config.admin_list # {}
    /\ outbox = <<>>

\* The two bytes that follow FE(server_address) in the vector, once they
\* have been written.
PortWritten == Called /\ "server_address" \in result.built
PortBytes ==
    SubSeq(result.kryo_bytes,
           Len(Header) + Len(result.locals.server_address) + 1,
           Len(Header) + Len(result.locals.server_address) + 2)

\* C15: of the port, a u32, the low sixteen bits are serialized: the two port
\* bytes are port mod 65536 in little-endian order, so they give the port
\* back exactly when it is below 65536; a port of 65536 or more is cut down
\* without an error, and the call returns a link as for any other port.
C15_PortLowSixteenBits ==
    /\ PortWritten
          => /\ PortBytes = <<(args.port % 65536) % 256, (args.port % 65536) \div 256>>
             /\ (PortBytes[1] + 256 * PortBytes[2] = args.port)
                   <=> args.port < 65536
    /\ (Called /\ args.port >= 65536 /\ result.writer # "rejected"
               /\ \A f \in TextFields : NonEmptyAscii(args[f]))
          => result.out = "returned"

\* The port 65979 has been serialized as BB 01, the bytes of 443, and the
\* link was returned.
C15_Witness ==
    /\ PortWritten
    /\ args.port = 65979
    /\ PortBytes = <<187, 1>>
    /\ result.out = "returned"

====
